---- MODULE Spec2Model ----
(***************************************************************************)
(* State-machine model of backend/main.py: the lifespan context manager    *)
(* (model load, warm-up, shutdown), the module globals it sets, and the    *)
(* four request handlers (health, model-info, detect, explain).            *)
(*                                                                         *)
(* Numbers with a fractional part (bbox fields, confidence) are integers   *)
(* in units of 10^-6, computed with exact rational arithmetic.             *)
(* The external collaborators (cv2.imdecode, the YOLO detector, BoT-SORT)  *)
(* are modelled by their contract as the handlers use it; every choice     *)
(* they make is a nondeterministic input of the handler's action.          *)
(***************************************************************************)
EXTENDS Integers, Sequences, FiniteSets, TLC

VARIABLES
    env,            \* what surrounds the process: weight file, client payloads, camera scenes
    pc,             \* position of the lifespan coroutine
    model,          \* global `model`         (main.py:38)
    explain_model,  \* global `explain_model` (main.py:39)
    cam_extractor,  \* global `cam_extractor` (main.py:40)
    tracker,        \* BoT-SORT state held inside the YOLO object (persist=True)
    last,           \* the operation handled last
    req,            \* its inputs
    resp,           \* its response
    solo            \* history: per stream, the tracker a stream would have had alone

vars == <<env, pc, model, explain_model, cam_extractor, tracker, last, req, resp, solo>>

None == "None"

-----------------------------------------------------------------------------
(* Bounds of the model *)

MaxLen == 5             \* longest frame string a client sends
MaxDet == 2             \* most boxes the detector returns for one frame, and
                        \* most distinct vehicles one client's video stream shows

Clients == {"c1", "c2"}
Objects == Clients \X (1..MaxDet)

-----------------------------------------------------------------------------
(* base64.b64decode(req.frame): binascii.a2b_base64 in its default,        *)
(* non-strict mode. Characters outside the alphabet are discarded, a pad   *)
(* that completes a quad ends the input, and a dangling quad is an error.  *)

B64Alphabet == {"A", "D", "Q"}
B64Pad == "="
Chars == B64Alphabet \cup {B64Pad, "!"}

B64Value(ch) ==
    CASE ch = "A" -> 0
      [] ch = "D" -> 3
      [] ch = "Q" -> 16

RECURSIVE a2b_base64(_, _, _, _, _, _)
a2b_base64(s, i, quad_pos, leftchar, pads, out) ==
    IF i > Len(s)
    THEN IF quad_pos # 0 THEN [ok |-> FALSE, bytes |-> <<>>]
                         ELSE [ok |-> TRUE, bytes |-> out]
    ELSE LET ch == s[i] IN
         IF ch = B64Pad
         THEN IF quad_pos >= 2 /\ quad_pos + pads + 1 >= 4
              THEN [ok |-> TRUE, bytes |-> out]
              ELSE a2b_base64(s, i + 1, quad_pos, leftchar,
                              IF quad_pos >= 2 THEN pads + 1 ELSE pads, out)
         ELSE IF ch \notin B64Alphabet
         THEN a2b_base64(s, i + 1, quad_pos, leftchar, pads, out)
         ELSE LET v == B64Value(ch) IN
              CASE quad_pos = 0 -> a2b_base64(s, i + 1, 1, v, 0, out)
                [] quad_pos = 1 -> a2b_base64(s, i + 1, 2, v % 16, 0,
                                              Append(out, leftchar * 4 + v \div 16))
                [] quad_pos = 2 -> a2b_base64(s, i + 1, 3, v % 4, 0,
                                              Append(out, leftchar * 16 + v \div 4))
                [] quad_pos = 3 -> a2b_base64(s, i + 1, 0, 0, 0,
                                              Append(out, leftchar * 64 + v))

b64decode(s) == a2b_base64(s, 1, 0, 0, 0, <<>>)

(* cv2.imdecode(np_arr, cv2.IMREAD_COLOR): a frame, or None (ok = FALSE)   *)
(* when the bytes are no image. The container is a three-byte one: a       *)
(* signature byte, the width, the height; a zero dimension is no image.    *)
ImageSignature == 64

NoFrame == [ok |-> FALSE, w |-> 0, h |-> 0]

imdecode(bytes) ==
    IF Len(bytes) = 3 /\ bytes[1] = ImageSignature /\ bytes[2] >= 1 /\ bytes[3] >= 1
    THEN [ok |-> TRUE, w |-> bytes[2], h |-> bytes[3]]
    ELSE NoFrame

(* main.py:168-175 and 256-263, the try block of detect and of explain:    *)
(* the frame, or NoFrame when the block raised (b64decode raised, or       *)
(* imdecode returned None), which the except clause turns into a 400.      *)
decode_frame(f) ==
    LET img == b64decode(f) IN
    IF ~img.ok THEN NoFrame ELSE imdecode(img.bytes)

-----------------------------------------------------------------------------
(* Python's round(x, ndigits) of the rational num/den (num >= 0, den > 0): *)
(* to the nearest multiple of 10^-ndigits, a tie to the even one. The      *)
(* result is in units of 10^-6.                                            *)
round(num, den, ndigits) ==
    LET p == 10 ^ ndigits
        q == (num * p) \div den
        r == (num * p) % den
        n == IF 2 * r < den THEN q
             ELSE IF 2 * r > den THEN q + 1
             ELSE IF q % 2 = 0 THEN q ELSE q + 1
    IN  n * 10 ^ (6 - ndigits)

(* main.py:203-207 and 223-224: the box as centre and size, each divided   *)
(* by the frame's width or height and rounded to 4 places.                 *)
BBox_wrong_axis(x1, y1, x2, y2, w, h) ==
    [x |-> round(x1 + x2, 2 * h, 4), y |-> round(y1 + y2, 2 * w, 4),
     width |-> round(x2 - x1, h, 4), height |-> round(y2 - y1, w, 4)]

BBox(x1, y1, x2, y2, w, h) ==
    [x |-> round(x1 + x2, 2 * w, 4), y |-> round(y1 + y2, 2 * h, 4),
     width |-> round(x2 - x1, w, 4), height |-> round(y2 - y1, h, 4)]

(* model.names, the class table stored in the weight file *)
names == (0 :> "car") @@ (1 :> "truck")

(* main.py:211  model.names.get(cls_id, f"class_{cls_id}") *)
cls_name(cls_id) ==
    IF cls_id \in DOMAIN names THEN names[cls_id] ELSE "class_" \o ToString(cls_id)

(* main.py:213-216: the track id of box i; ids is boxes.id (None when the  *)
(* tracker produced no identifiers for the frame).                         *)
track_id_unset(ids, i) == -1

track_id(ids, i) ==
    IF ids.none THEN -1 ELSE ids.of[i]

(* main.py:227  count_by_class[cls_name] = count_by_class.get(cls_name, 0) + 1 *)
count_overwrite(count_by_class, name) ==
    IF name \in DOMAIN count_by_class
    THEN [count_by_class EXCEPT ![name] = 1]
    ELSE count_by_class @@ (name :> 1)

count_increment(count_by_class, name) ==
    IF name \in DOMAIN count_by_class
    THEN [count_by_class EXCEPT ![name] = @ + 1]
    ELSE count_by_class @@ (name :> 1)

(* main.py:209-225: one DetectionResult; box.conf is in units of 10^-5 *)
DetectionResult(box, tid, w, h) ==
    [track_id |-> tid,
     class_name |-> cls_name(box.cls),
     class_id |-> box.cls,
     confidence |-> round(box.conf, 10 ^ 5, 4),
     bbox |-> BBox(box.x1, box.y1, box.x2, box.y2, w, h)]

(* main.py:193-227: the loop over results[0].boxes, from box i on *)
RECURSIVE parse_boxes(_, _, _, _, _, _, _)
parse_boxes(boxes, ids, w, h, i, detections, count_by_class) ==
    IF i > Len(boxes)
    THEN [detections |-> detections, count_by_class |-> count_by_class]
    ELSE LET d == DetectionResult(boxes[i], track_id(ids, i), w, h) IN
         parse_boxes(boxes, ids, w, h, i + 1, Append(detections, d),
                     count_increment(count_by_class, d.class_name))

(* main.py:115-122 and 229-236: the DetectResponse, without its elapsed    *)
(* time; no_boxes is `results[0].boxes is None`.                           *)
DetectResponse(no_boxes, boxes, ids, w, h) ==
    LET p == IF no_boxes THEN [detections |-> <<>>, count_by_class |-> <<>>]
             ELSE parse_boxes(boxes, ids, w, h, 1, <<>>, <<>>)
    IN  [status |-> 200,
         detections |-> p.detections,
         vehicle_count |-> Len(p.detections),
         count_by_class |-> p.count_by_class,
         frame_width |-> w,
         frame_height |-> h,
         tracker |-> "botsort"]

HTTPException(code) == [status |-> code]

-----------------------------------------------------------------------------
(* BoT-SORT behind model.track(..., persist=True): one tracker per YOLO    *)
(* object, kept between calls. It knows the vehicles it has seen (0: not   *)
(* seen) and gives every new one the next identifier.                      *)
InitTracker == [next |-> 1, ids |-> [o \in Objects |-> 0]]

RECURSIVE update(_, _, _)
update(tr, objs, i) ==
    IF i > Len(objs) THEN tr
    ELSE IF tr.ids[objs[i]] # 0 THEN update(tr, objs, i + 1)
    ELSE update([next |-> tr.next + 1, ids |-> [tr.ids EXCEPT ![objs[i]] = tr.next]],
                objs, i + 1)

(* main.py:181-189: the tracker after the call, persist=True *)
track_no_persist(tr, objs) == update(InitTracker, objs, 1)

track(tr, objs) == update(tr, objs, 1)

-----------------------------------------------------------------------------
(* The environment of one run, fixed at process start:                     *)
(*   weights   whether the weight file exists                              *)
(*   payloads  the frame strings clients send                              *)
(*   boxes     the absolute xyxy boxes the detector may return             *)
(*   vehicles  per client, how many distinct vehicles its stream shows     *)
(*   classes   the class ids the detector may return                       *)
(*   tracking  whether the tracker may, or may not, return identifiers     *)
(*   maxdet    the most boxes in one frame                                 *)

AllFrames == UNION {[1..n -> Chars] : n \in 0..MaxLen}

(* base64 of a 4x3 image *)
SampleImage == <<"Q", "A", "Q", "D">>

(* The image, an empty string, a dangling quad *)
SampleFrames == {SampleImage, <<>>, <<"Q", "A", "Q">>}

ClassIds == {0, 1, 2}

(* Absolute xyxy boxes on the pixel grid of a w x h frame. The detector    *)
(* clips its boxes to the frame: 0 <= x1 <= x2 <= w and 0 <= y1 <= y2 <= h.*)
InFrame(b, w, h) ==
    /\ 0 <= b.x1 /\ b.x1 <= b.x2 /\ b.x2 <= w
    /\ 0 <= b.y1 /\ b.y1 <= b.y2 /\ b.y2 <= h

PixelBoxes(w, h) ==
    {b \in [x1 : 0..w, y1 : 0..h, x2 : 0..w, y2 : 0..h] : InFrame(b, w, h)}

FullBox(w, h) == [x1 |-> 0, y1 |-> 0, x2 |-> w, y2 |-> h]

RawBoxes(c, w, h) ==
    {[obj |-> <<c, o>>, cls |-> k, conf |-> 91234,
      x1 |-> b.x1, y1 |-> b.y1, x2 |-> b.x2, y2 |-> b.y2] :
        o \in 1..env.vehicles[c],
        k \in env.classes,
        b \in {e \in env.boxes : InFrame(e, w, h)}}

(* What model.track returns for a frame of client c's stream: results[0]   *)
(* with boxes None, or a list of boxes of distinct vehicles, with or       *)
(* without track identifiers (boxes.id is None when nothing was tracked).  *)
DetectorOutputs(c, w, h) ==
    LET lists == UNION {[1..n -> RawBoxes(c, w, h)] : n \in 0..env.maxdet}
        distinct(l) == \A i, j \in 1..Len(l) : i # j => l[i].obj # l[j].obj
    IN  {[no_boxes |-> TRUE, boxes |-> <<>>, tracked |-> FALSE]}
        \cup UNION {{[no_boxes |-> FALSE, boxes |-> l, tracked |-> t] :
                        t \in (IF Len(l) = 0 THEN {FALSE} ELSE env.tracking)} :
                    l \in {m \in lists : distinct(m)}}

-----------------------------------------------------------------------------
(* The lifespan coroutine, main.py:43-65. pc is the line it stands at.     *)
(* It has no await before its yield, and the handlers are coroutines of    *)
(* the same event loop: no handler runs between two of its steps.          *)

NoTracker == [next |-> 0, ids |-> [o \in Objects |-> 0]]

Lifecycle ==
    CASE pc = "init" -> "UNLOADED"
      [] pc \in {"L49", "L51", "L59"} -> "LOADING"
      [] pc = "yield" -> "READY"
      [] pc = "done" -> "UNLOADED"
      [] pc = "raised" -> "FAILED"

EventLoopFree == pc \in {"init", "yield", "done", "raised"}

(* main.py:47  MODEL_PATH.exists() *)
AlwaysExists == TRUE

ModelPathExists == env.weights

(* main.py:47-48 *)
lifespan_enter ==
    /\ pc = "init"
    /\ pc' = IF ModelPathExists THEN "L49" ELSE "raised"
    /\ UNCHANGED <<env, model, explain_model, cam_extractor, tracker, last, req, resp, solo>>

(* main.py:49  model = YOLO(str(MODEL_PATH)) *)
lifespan_load_detector ==
    /\ pc = "L49"
    /\ model' = "YOLO"
    /\ tracker' = InitTracker
    /\ pc' = "L51"
    /\ UNCHANGED <<env, explain_model, cam_extractor, last, req, resp, solo>>

(* main.py:51-55  warm-up: model.predict on a dummy frame (no tracking) *)
lifespan_warm_up ==
    /\ pc = "L51"
    /\ pc' = "L59"
    /\ UNCHANGED <<env, model, explain_model, cam_extractor, tracker, last, req, resp, solo>>

(* main.py:58-64 *)
lifespan_load_explain ==
    /\ pc = "L59"
    /\ explain_model' = "MobileNetV3"
    /\ cam_extractor' = "GradCAM"
    /\ pc' = "yield"
    /\ UNCHANGED <<env, model, tracker, last, req, resp, solo>>

(* main.py:65  model = None; the YOLO object goes, and its tracker with it *)
lifespan_shutdown ==
    /\ pc = "yield"
    /\ model' = None
    /\ tracker' = NoTracker
    /\ pc' = "done"
    /\ UNCHANGED <<env, explain_model, cam_extractor, last, req, resp, solo>>

-----------------------------------------------------------------------------
(* The handlers. req.at is the lifecycle state the request was handled in,  *)
(* req.scene what the detector returned to it (NoScene: it was not called).*)

NoScene == [no_boxes |-> TRUE, boxes |-> <<>>, tracked |-> FALSE]

Request(c, f, raw) == [client |-> c, frame |-> f, at |-> Lifecycle, scene |-> raw]

(* main.py:140  "model_loaded": model is not None *)
model_loaded_by_cam == cam_extractor # None

model_loaded == model # None

(* main.py:136-143 *)
health_check ==
    /\ EventLoopFree
    /\ last' = "health"
    /\ req' = Request(None, <<>>, NoScene)
    /\ resp' = [status |-> 200, health |-> "ok", model_loaded |-> model_loaded,
                model_path |-> "best.pt", tracker |-> "botsort"]
    /\ UNCHANGED <<env, pc, model, explain_model, cam_extractor, tracker, solo>>

(* main.py:146-158 *)
model_info ==
    /\ EventLoopFree
    /\ last' = "model_info"
    /\ req' = Request(None, <<>>, NoScene)
    /\ resp' = IF model = None THEN HTTPException(503)
               ELSE [status |-> 200, model_name |-> "best", classes |-> names,
                     num_classes |-> Cardinality(DOMAIN names), input_size |-> 640]
    /\ UNCHANGED <<env, pc, model, explain_model, cam_extractor, tracker, solo>>

TrackedObjects(raw) == [i \in 1..Len(raw.boxes) |-> raw.boxes[i].obj]

(* boxes.id after the call: None, or the identifier of each box's vehicle *)
BoxIds(tr, raw) ==
    [none |-> ~raw.tracked, of |-> [i \in 1..Len(raw.boxes) |-> tr.ids[raw.boxes[i].obj]]]

(* main.py:162-236: the response and the tracker the handler leaves *)
detect_track_first(f, raw) ==
    LET frame == decode_frame(f)
        tr == IF raw.tracked THEN track(tracker, TrackedObjects(raw)) ELSE tracker
    IN  IF model = None THEN [resp |-> HTTPException(503), tracker |-> tr]
        ELSE IF ~frame.ok THEN [resp |-> HTTPException(400), tracker |-> tr]
        ELSE [resp |-> DetectResponse(raw.no_boxes, raw.boxes, BoxIds(tr, raw), frame.w, frame.h),
              tracker |-> tr]

detect_handler(f, raw) ==
    IF model = None THEN [resp |-> HTTPException(503), tracker |-> tracker]
    ELSE LET frame == decode_frame(f) IN
         IF ~frame.ok THEN [resp |-> HTTPException(400), tracker |-> tracker]
         ELSE LET tr == IF raw.tracked THEN track(tracker, TrackedObjects(raw)) ELSE tracker
              IN  [resp |-> DetectResponse(raw.no_boxes, raw.boxes, BoxIds(tr, raw),
                                           frame.w, frame.h),
                   tracker |-> tr]

detect ==
    /\ EventLoopFree
    /\ \E c \in Clients, f \in env.payloads :
        LET frame == decode_frame(f) IN
        \E raw \in DetectorOutputs(c, frame.w, frame.h) :
            LET out == detect_handler(f, raw) IN
            /\ last' = "detect"
            /\ req' = Request(c, f, IF out.resp.status = 200 THEN raw ELSE NoScene)
            /\ resp' = out.resp
            /\ tracker' = out.tracker
            /\ solo' = IF out.resp.status = 200 /\ raw.tracked
                       THEN [solo EXCEPT ![c] = track(solo[c], TrackedObjects(raw))]
                       ELSE solo
    /\ UNCHANGED <<env, pc, model, explain_model, cam_extractor>>

(* main.py:248-305: the heatmap has the frame's width and height *)
explain_handler(f) ==
    IF cam_extractor = None THEN HTTPException(503)
    ELSE LET frame == decode_frame(f) IN
         IF ~frame.ok THEN HTTPException(400)
         ELSE [status |-> 200, heatmap |-> [w |-> frame.w, h |-> frame.h]]

explain ==
    /\ EventLoopFree
    /\ \E c \in Clients, f \in env.payloads :
        /\ last' = "explain"
        /\ req' = Request(c, f, NoScene)
        /\ resp' = explain_handler(f)
    /\ UNCHANGED <<env, pc, model, explain_model, cam_extractor, tracker, solo>>

-----------------------------------------------------------------------------
(* The specifications *)

InitProcess ==
    /\ pc = "init"
    /\ model = None
    /\ explain_model = None
    /\ cam_extractor = None
    /\ tracker = NoTracker
    /\ last = "none"
    /\ req = Request(None, <<>>, NoScene)
    /\ resp = [status |-> 0]
    /\ solo = [c \in Clients |-> InitTracker]

(* Two streams that share the tracker: c1 shows MaxDet vehicles, c2 one *)
TrackingRun ==
    [weights |-> TRUE, payloads |-> SampleFrames, boxes |-> {FullBox(4, 3)},
     vehicles |-> [c \in Clients |-> IF c = "c1" THEN MaxDet ELSE 1],
     classes |-> {0}, tracking |-> BOOLEAN, maxdet |-> MaxDet]

(* One stream whose vehicles the detector puts in any class *)
ClassesRun ==
    [TrackingRun EXCEPT !.vehicles = [c \in Clients |-> IF c = "c1" THEN MaxDet ELSE 0],
                        !.classes = ClassIds, !.tracking = {FALSE}]

(* The weight file is missing *)
NoWeightsRun == [TrackingRun EXCEPT !.weights = FALSE]

Init ==
    /\ env \in {TrackingRun, ClassesRun, NoWeightsRun}
    /\ InitProcess

Next ==
    \/ lifespan_enter
    \/ lifespan_load_detector
    \/ lifespan_warm_up
    \/ lifespan_load_explain
    \/ lifespan_shutdown
    \/ health_check
    \/ model_info
    \/ detect
    \/ explain

Spec == Init /\ [][Next]_vars

(* Decoding: one frame string per run, any string of at most MaxLen        *)
(* characters, in front of a blank scene.                                  *)
CodecRuns ==
    {[TrackingRun EXCEPT !.payloads = {f}, !.maxdet = 0] : f \in AllFrames}

InitCodec ==
    /\ env \in CodecRuns
    /\ InitProcess

SpecCodec == InitCodec /\ [][Next]_vars

(* Normalisation: one image and one box inside it per run: a 4x3 or a 4x16 *)
(* image, and any box on its pixel grid.                                   *)
ImageFrames == {SampleImage, <<"Q", "A", "Q", "Q">>}

NormRuns ==
    UNION {{[ClassesRun EXCEPT !.payloads = {f}, !.boxes = {b}, !.classes = {0},
                               !.vehicles = [c \in Clients |-> IF c = "c1" THEN 1 ELSE 0],
                               !.maxdet = 1] :
                b \in PixelBoxes(decode_frame(f).w, decode_frame(f).h)} :
           f \in ImageFrames}

InitNorm ==
    /\ env \in NormRuns
    /\ InitProcess

SpecNorm == InitNorm /\ [][Next]_vars

-----------------------------------------------------------------------------
(* Properties *)

Detected == last = "detect" /\ resp.status = 200

RECURSIVE SumOver(_, _)
SumOver(f, S) ==
    IF S = {} THEN 0
    ELSE LET x == CHOOSE y \in S : TRUE IN f[x] + SumOver(f, S \ {x})

(* RFC 4648 base64: quads of alphabet characters, at most two pads, at the end *)
WellFormedBase64(s) ==
    /\ Len(s) % 4 = 0
    /\ \A i \in 1..Len(s) :
        \/ s[i] \in B64Alphabet
        \/ s[i] = B64Pad /\ i >= Len(s) - 1 /\ s[Len(s)] = B64Pad

(* C1: in every lifecycle state other than READY, a detect and an explain  *)
(* request carrying a valid frame are rejected with 503.                   *)
C1_RejectedUnlessReady ==
    (last \in {"detect", "explain"} /\ decode_frame(req.frame).ok /\ req.at # "READY")
        => resp.status = 503

(* C2: in READY, a detect or explain request whose frame is malformed      *)
(* base64, or decodes to bytes that are no image, ends in 400.             *)
C2_BadFrameIs400 ==
    (/\ last \in {"detect", "explain"}
     /\ req.at = "READY"
     /\ ~WellFormedBase64(req.frame) \/ ~decode_frame(req.frame).ok)
        => resp.status = 400

(* C3: in every successful detect response the values of count_by_class    *)
(* sum to vehicle_count, vehicle_count is the number of detections, and    *)
(* each class counts the detections of that class.                         *)
C3_CountsSumToVehicleCount ==
    Detected =>
        /\ SumOver(resp.count_by_class, DOMAIN resp.count_by_class) = resp.vehicle_count
        /\ resp.vehicle_count = Len(resp.detections)
        /\ \A n \in DOMAIN resp.count_by_class :
              resp.count_by_class[n] =
                  Cardinality({i \in 1..Len(resp.detections) : resp.detections[i].class_name = n})

C3_TwoOfOneClass ==
    /\ Detected
    /\ resp.vehicle_count = 2
    /\ \E n \in DOMAIN resp.count_by_class : resp.count_by_class[n] = 2

(* C4: every bbox field of every detection of a successful detect response *)
(* lies in [0,1], is a multiple of 10^-4, and is within half of 10^-4 of   *)
(* the box's centre or size divided by the frame's width or height.        *)
Near(v, num, den) ==
    /\ v * den - num * 10 ^ 6 <= 50 * den
    /\ num * 10 ^ 6 - v * den <= 50 * den

C5_TrackIds ==
    Detected =>
        \A i \in 1..Len(resp.detections) :
            LET t == resp.detections[i].track_id IN
            /\ t \in Int
            /\ t = -1 \/ t >= 0
            /\ t = -1 <=> ~req.scene.tracked
            /\ (req.scene.tracked /\ pc = "yield") =>
                  t = tracker.ids[req.scene.boxes[i].obj] /\ t >= 1

C5_TrackedSecond ==
    /\ Detected
    /\ req.scene.tracked
    /\ \E i \in 1..Len(resp.detections) : resp.detections[i].track_id = 2

(* C6: health answers 200 in whatever state it is handled, and its         *)
(* model_loaded is true exactly when that state is READY.                  *)
C6_HealthReportsReady ==
    last = "health" =>
        /\ resp.status = 200
        /\ resp.model_loaded <=> req.at = "READY"

C6_HealthAfterShutdown ==
    /\ last = "health"
    /\ pc = "done"
    /\ req.at = "UNLOADED"
    /\ resp.model_loaded = FALSE

(* C7: the lifecycle moves UNLOADED -> LOADING -> READY -> UNLOADED only   *)
(* (or fails at start), the three model references do not change while    *)
(* READY, and after shutdown every one of them is None.                    *)
Handle == <<model, explain_model, cam_extractor>>

C7_LifecycleAndHandle ==
    [][/\ Lifecycle' # Lifecycle =>
            <<Lifecycle, Lifecycle'>> \in {<<"UNLOADED", "LOADING">>, <<"LOADING", "READY">>,
                                          <<"READY", "UNLOADED">>, <<"UNLOADED", "FAILED">>}
       /\ (pc = "yield" /\ pc' = "yield") => Handle' = Handle
       /\ pc' = "done" => Handle' = <<None, None, None>>]_vars

(* C8: every accepted detect of either stream is folded into the one       *)
(* tracker: it knows exactly the vehicles the streams showed, numbers them *)
(* from one counter, and a stream's identifiers differ from those it would *)
(* have alone only when another stream's vehicles are in the tracker too.  *)
Diverged(c) == \E o \in Objects : o[1] = c /\ tracker.ids[o] # solo[c].ids[o]

C8_OneSharedTracker ==
    pc = "yield" =>
        /\ \A o \in Objects : tracker.ids[o] # 0 <=> solo[o[1]].ids[o] # 0
        /\ tracker.next = 1 + Cardinality({o \in Objects : tracker.ids[o] # 0})
        /\ \A o, q \in Objects : (tracker.ids[o] # 0 /\ tracker.ids[o] = tracker.ids[q]) => o = q
        /\ \A c \in Clients :
              Diverged(c) => \E o \in Objects : o[1] # c /\ tracker.ids[o] # 0

(* a response whose track id is not the one the stream would have had alone *)
C8_IdentityDiffersFromAlone ==
    /\ Detected
    /\ pc = "yield"
    /\ req.scene.tracked
    /\ \E i \in 1..Len(resp.detections) :
          resp.detections[i].track_id # solo[req.client].ids[req.scene.boxes[i].obj]

(* C9: with the weight file missing the lifespan raises: READY is never    *)
(* reached, no model reference is set, no detect or explain succeeds.      *)
C9_NoWeightsNoService ==
    ~env.weights =>
        /\ pc \in {"init", "raised"}
        /\ Lifecycle # "READY"
        /\ Handle = <<None, None, None>>
        /\ last \in {"detect", "explain", "model_info"} => resp.status = 503

C9_RejectedAfterFailedStart ==
    /\ ~env.weights
    /\ pc = "raised"
    /\ last = "detect"
    /\ decode_frame(req.frame).ok
    /\ resp.status = 503

(* C10: a request changes the tracker only if it is a detect answered 200; *)
(* a response with an error status carries no detections.                  *)
C10_OnlyDetectAdvancesTracker ==
    [][/\ (pc' = pc /\ tracker' # tracker) => (last' = "detect" /\ resp'.status = 200)
       /\ resp'.status \in {400, 503} => DOMAIN resp' = {"status"}]_vars

C10_FailedDetectAfterTracking ==
    /\ last = "detect"
    /\ resp.status = 400
    /\ pc = "yield"
    /\ tracker.next > 1

====
